---- MODULE Spec2Model ----
(***************************************************************************)
(* ACIR -> R1CS bridge (arkworks_backend).                                 *)
(*                                                                         *)
(*   serializer.rs     AcirCircuit::from / AcirCircuitSonobe::from and     *)
(*                     AcirArithGate::from  (gate extraction, witness      *)
(*                     binding, field conversion)                          *)
(*   lib.rs            compute_num_opcodes                                 *)
(*   sonobe_bridge.rs  AcirCircuitSonobe::generate_constraints             *)
(*                                                                         *)
(* Witness(i) is modelled by the natural number i.  A prover-side field    *)
(* element is a number in 0..P-1; a compiler-side GenericFieldElement is   *)
(* the wrapper record [fe |-> x] around one.                               *)
(***************************************************************************)
EXTENDS Integers, Sequences, FiniteSets, TLC

VARIABLES
    circuit,                     \* the borrowed &Circuit
    witness_map,                 \* the WitnessMap handed to From
    gates,                       \* bridge.gates
    public_inputs,               \* bridge.public_inputs
    values,                      \* bridge.values : BTreeMap<Witness, F>
    already_assigned_witnesses,  \* bridge.already_assigned_witnesses
    num_opcodes,                 \* outcome of compute_num_opcodes
    cs,                          \* the ConstraintSystem behind ConstraintSystemRef
    cs0,                         \* the constraint system as handed to generate_constraints
    variables,                   \* the local Vec `variables`
    gates_taken,                 \* gates `for gate in self.gates` has taken
    pc                           \* position of the program

vars == << circuit, witness_map, gates, public_inputs, values,
           already_assigned_witnesses, num_opcodes, cs, cs0, variables,
           gates_taken, pc >>

(***************************************************************************)
(* Bounds of the exploration.                                              *)
(***************************************************************************)
MaxVars == 2        \* circuits have at most MaxVars witnesses
MaxOpcodes == 3     \* opcode lists have at most MaxOpcodes opcodes
MaxGates == 2       \* synthesized bridges have at most MaxGates gates
MaxTerms == 2       \* mul + linear terms over all opcodes of a circuit
MaxExternal == 1    \* witness variables already in the constraint system

(***************************************************************************)
(* The prime field F: PrimeField, as GF(P).                                *)
(***************************************************************************)
P == 3

Field == 0..(P - 1)

FZero == 0

FOne == 1 % P

FAdd(a, b) == (a + b) % P

FMul(a, b) == (a * b) % P

FNeg(a) == (P - a) % P

\* FieldElement::from(n): the canonical representative of the integer n
FromInt(n) == n % P

(***************************************************************************)
(* Compiler-side field elements and their conversion.                      *)
(***************************************************************************)
GenericFieldElement(x) == [fe |-> x]

CompilerField == { GenericFieldElement(x) : x \in Field }

\* GenericFieldElement::into_repr: the wrapped prover-side element
into_repr(f) == f.fe

(***************************************************************************)
(* Circuits: opcodes, expressions.                                         *)
(***************************************************************************)
Expression(m, l, c) == [mul_terms |-> m, linear_combinations |-> l, q_c |-> c]

AssertZero(e) == [kind |-> "AssertZero", expr |-> e]

Directive == [kind |-> "Directive"]

\* opcode kinds the bridge does not translate
OtherKinds == {"BlackBoxFuncCall", "MemoryOp"}

OtherOpcode(k) == [kind |-> k]

\* Expression::num_mul_terms
num_mul_terms(e) == Len(e.mul_terms)

\* Circuit::num_vars
num_vars(c) == c.current_witness_index + 1

\* Circuit::public_inputs
PublicInputsOf(c) == c.public_parameters \cup c.return_values

(***************************************************************************)
(* serializer.rs: AcirArithGate::from(Expression)                          *)
(***************************************************************************)
AcirArithGate(m, a, c) == [mul_terms |-> m, add_terms |-> a, constant_term |-> c]

\* variant: the two witnesses of a multiplication term change places
ConvertMulTermBad(t) == << into_repr(t[1]), t[3], t[2] >>

ConvertMulTerm(t) == << into_repr(t[1]), t[2], t[3] >>

ConvertLinearTerm(t) == << into_repr(t[1]), t[2] >>

AcirArithGateFrom(arith_gate) ==
    AcirArithGate(
        [i \in 1..Len(arith_gate.mul_terms) |-> ConvertMulTerm(arith_gate.mul_terms[i])],
        [i \in 1..Len(arith_gate.linear_combinations) |->
            ConvertLinearTerm(arith_gate.linear_combinations[i])],
        into_repr(arith_gate.q_c))

(***************************************************************************)
(* serializer.rs: AcirCircuit::from((&Circuit, WitnessMap))                *)
(***************************************************************************)
\* the filter_map over circuit.opcodes: Some(gate) for AssertZero, None otherwise
RECURSIVE ExtractGates(_)
ExtractGates(opcodes) ==
    IF opcodes = << >> THEN << >>
    ELSE IF Head(opcodes).kind = "AssertZero"
         THEN << AcirArithGateFrom(Head(opcodes).expr) >> \o ExtractGates(Tail(opcodes))
         ELSE ExtractGates(Tail(opcodes))

\* variant: an absent witness is bound to one
BindWitnessBad(c, wm) ==
    [w \in 0..(num_vars(c) - 1) |->
        IF w \in DOMAIN wm THEN into_repr(wm[w]) ELSE FOne]

\* (0..num_variables).map(|i| witness_map.get(i).map_or(F::zero(), into_repr))
BindWitness(c, wm) ==
    [w \in 0..(num_vars(c) - 1) |->
        IF w \in DOMAIN wm THEN into_repr(wm[w]) ELSE FZero]

AcirCircuitFrom(c, wm) ==
    [gates |-> ExtractGates(c.opcodes),
     values |-> BindWitness(c, wm),
     public_inputs |-> PublicInputsOf(c)]

\* an empty HashMap / an empty WitnessMap
EmptyMap == << >>

\* serializer.rs: AcirCircuitSonobe::from((&Circuit, WitnessMap))
AcirCircuitSonobeFrom(c, wm) ==
    LET acir == AcirCircuitFrom(c, wm)
    IN  [gates |-> acir.gates,
         public_inputs |-> acir.public_inputs,
         values |-> acir.values,
         already_assigned_witnesses |-> EmptyMap]

(***************************************************************************)
(* lib.rs: compute_num_opcodes                                             *)
(***************************************************************************)
Counted(n) == [panicked |-> FALSE, value |-> n]

\* the unreachable!() arm
Panicked == [panicked |-> TRUE, value |-> 0]

\* the for loop over acir.opcodes, from the running count acc
RECURSIVE CountLoop(_, _)
CountLoop(opcodes, acc) ==
    IF opcodes = << >> THEN Counted(acc)
    ELSE IF Head(opcodes).kind = "AssertZero"
         THEN CountLoop(Tail(opcodes), acc + num_mul_terms(Head(opcodes).expr) + 1)
         ELSE IF Head(opcodes).kind = "Directive"
              THEN CountLoop(Tail(opcodes), acc)
              ELSE Panicked

\* `num_opcodes as u32` leaves a count of this size as it is
compute_num_opcodes(acir) == CountLoop(acir.opcodes, Len(acir.opcodes))

(***************************************************************************)
(* Bounded inputs.                                                         *)
(***************************************************************************)
SeqsOfLen(S, n) == [1..n -> S]

\* coefficients of generated expressions: 1 and -1
Coeffs == { GenericFieldElement(FOne), GenericFieldElement(FNeg(FOne)) }

\* the witnesses of a circuit's terms are below its num_vars (the circuit's
\* current_witness_index is its largest witness), so values[&w] and
\* variables[w] are always present
MulTerms(N) == { << c, l, r >> : c \in Coeffs, l \in 0..(N - 1), r \in 0..(N - 1) }

LinearTerms(N) == { << c, w >> : c \in Coeffs, w \in 0..(N - 1) }

\* the expressions over N witnesses with exactly k terms
ExpressionsWith(N, k) ==
    UNION { { Expression(m, l, c) : m \in SeqsOfLen(MulTerms(N), j),
                                    l \in SeqsOfLen(LinearTerms(N), k - j),
                                    c \in CompilerField } : j \in 0..k }

\* the opcodes over N witnesses carrying exactly k terms
OpcodesWith(N, k, kinds) ==
    { AssertZero(e) : e \in ExpressionsWith(N, k) }
        \cup (IF k = 0 THEN { [kind |-> x] : x \in kinds } ELSE {})

Circuit(ops, cwi, pubs) ==
    [opcodes |-> ops, current_witness_index |-> cwi,
     public_parameters |-> pubs, return_values |-> {}]

\* partial maps Witness -> GenericFieldElement with keys below n
WitnessMaps(n) ==
    UNION { [D -> CompilerField] : D \in SUBSET (0..(n - 1)) }

\* circuit is a circuit over N witnesses whose opcode list extends prefix by at
\* most n opcodes carrying at most t terms in all
RECURSIVE ChooseCircuit(_, _, _, _, _, _)
ChooseCircuit(prefix, N, pubs, n, t, kinds) ==
    \/ circuit = Circuit(prefix, N - 1, pubs)
    \/ /\ n > 0
       /\ \E k \in 0..t :
            \E op \in OpcodesWith(N, k, kinds) :
                ChooseCircuit(Append(prefix, op), N, pubs, n - 1, t - k, kinds)

(***************************************************************************)
(* Construction of the bridge from a circuit, and the opcode count.        *)
(***************************************************************************)
NotCounted == [called |-> FALSE, panicked |-> FALSE, value |-> 0]

NoBridgeYet ==
    /\ gates = << >>
    /\ public_inputs = {}
    /\ values = EmptyMap
    /\ already_assigned_witnesses = EmptyMap

EmptyConstraintSystem ==
    [num_instance_variables |-> 1, num_witness_variables |-> 0,
     witness_assignment |-> << >>, constraints |-> << >>]

NoSynthesis ==
    /\ cs = EmptyConstraintSystem
    /\ cs0 = EmptyConstraintSystem
    /\ variables = << >>
    /\ gates_taken = 0

\* circuits of up to MaxOpcodes opcodes with the empty witness map of
\* From<&Circuit>, or circuits of at most one opcode with any partial witness
\* map (its keys may lie beyond the circuit's witnesses) and public parameters
InitBridge ==
    /\ \E N \in 1..MaxVars :
         \/ /\ ChooseCircuit(<< >>, N, {}, MaxOpcodes, MaxTerms,
                              OtherKinds \cup {"Directive"})
            /\ witness_map = EmptyMap
         \/ /\ \E pubs \in SUBSET (0..(N - 1)) :
                  ChooseCircuit(<< >>, N, pubs, 1, 1, {"Directive"})
            /\ witness_map \in WitnessMaps(N + 1)
    /\ NoBridgeYet
    /\ NoSynthesis
    /\ num_opcodes = NotCounted
    /\ pc = "circuit"

\* let circuit = AcirCircuit::from((&circuit, witness_map))
AcirCircuit_from ==
    /\ pc = "circuit"
    /\ LET b == AcirCircuitFrom(circuit, witness_map)
       IN  /\ gates' = b.gates
           /\ values' = b.values
           /\ public_inputs' = b.public_inputs
    /\ pc' = "AcirCircuit"
    /\ UNCHANGED << circuit, witness_map, already_assigned_witnesses, num_opcodes,
                    cs, cs0, variables, gates_taken >>

\* let circuit = AcirCircuitSonobe::from((&circuit, witness_map))
AcirCircuitSonobe_from ==
    /\ pc = "circuit"
    /\ LET b == AcirCircuitSonobeFrom(circuit, witness_map)
       IN  /\ gates' = b.gates
           /\ values' = b.values
           /\ public_inputs' = b.public_inputs
           /\ already_assigned_witnesses' = b.already_assigned_witnesses
    /\ pc' = "AcirCircuitSonobe"
    /\ UNCHANGED << circuit, witness_map, num_opcodes, cs, cs0, variables, gates_taken >>

\* let n = compute_num_opcodes(&circuit)
ComputeNumOpcodes ==
    /\ pc = "circuit"
    /\ LET r == compute_num_opcodes(circuit)
       IN  num_opcodes' = [called |-> TRUE, panicked |-> r.panicked, value |-> r.value]
    /\ pc' = "counted"
    /\ UNCHANGED << circuit, witness_map, gates, public_inputs, values,
                    already_assigned_witnesses, cs, cs0, variables, gates_taken >>

(***************************************************************************)
(* The constraint system (ark_relations::r1cs::ConstraintSystem).          *)
(***************************************************************************)
\* Variable::One and Variable::Witness(k)
One == << "One", 0 >>

WitnessVar(k) == << "Witness", k >>

\* lc!(): a linear combination maps each of its variables to its coefficient
EmptyLc == << >>

\* lc += (coeff, var): the coefficient of a variable already present grows,
\* a new variable gets its own term
LcAdd(lc, coeff, var) ==
    IF var \in DOMAIN lc
    THEN [lc EXCEPT ![var] = FAdd(@, coeff)]
    ELSE lc @@ (var :> coeff)

\* cs.new_witness_variable(|| Ok(val))
new_witness_variable(c, val) ==
    [cs |-> [c EXCEPT !.num_witness_variables = @ + 1,
                      !.witness_assignment = Append(@, val)],
     variable |-> WitnessVar(c.num_witness_variables)]

\* cs.new_input_variable(|| Ok(val)): an instance variable (its value is kept
\* apart from the witness assignment)
new_input_variable(c, val) ==
    [cs |-> [c EXCEPT !.num_instance_variables = @ + 1],
     variable |-> << "Instance", c.num_instance_variables >>]

\* FpVar::Var(AllocatedFp { value, variable, .. }) and FpVar::Constant(value)
FpVarVar(variable, value) == [kind |-> "Var", variable |-> variable, value |-> value]

FpVarConstant(value) == [kind |-> "Constant", value |-> value]

\* FpVar::new_witness(cs, || Ok(val))
FpVar_new_witness(c, val) ==
    LET r == new_witness_variable(c, val)
    IN  [cs |-> r.cs, var |-> FpVarVar(r.variable, val)]

\* variant: the new constraint replaces the ones before it
enforce_constraint_replacing(c, a, b, cc) ==
    [c EXCEPT !.constraints = << [a |-> a, b |-> b, c |-> cc] >>]

\* cs.enforce_constraint(a, b, c)
enforce_constraint(c, a, b, cc) ==
    [c EXCEPT !.constraints = Append(@, [a |-> a, b |-> b, c |-> cc])]

\* the value of a variable under a witness assignment
VarValue(assignment, var) ==
    IF var[1] = "One" THEN FOne
    ELSE IF var[1] = "Witness" THEN assignment[var[2] + 1]
         ELSE FZero

RECURSIVE SumLc(_, _, _)
SumLc(assignment, lc, S) ==
    IF S = {} THEN FZero
    ELSE LET v == CHOOSE x \in S : TRUE
         IN  FAdd(FMul(lc[v], VarValue(assignment, v)), SumLc(assignment, lc, S \ {v}))

\* the value of a linear combination under a witness assignment
EvalLc(assignment, lc) == SumLc(assignment, lc, DOMAIN lc)

\* a * b = c for every constraint, under the given assignment
SatisfiedBy(c, assignment) ==
    \A k \in 1..Len(c.constraints) :
        FMul(EvalLc(assignment, c.constraints[k].a),
             EvalLc(assignment, c.constraints[k].b))
          = EvalLc(assignment, c.constraints[k].c)

\* cs.is_satisfied(): under the assignment seeded during synthesis
is_satisfied(c) == SatisfiedBy(c, c.witness_assignment)

(***************************************************************************)
(* sonobe_bridge.rs: AcirCircuitSonobe::generate_constraints               *)
(***************************************************************************)
\* the state of a run: the constraint system, the Vec `variables`, and
\* "running", "Ok" or "Err"
Run(c, vs, st) == [cs |-> c, variables |-> vs, status |-> st]

\* variant: every witness gets a fresh variable, aliased or not
AllocateWitnessIgnoringAlias(run, i, vals, pubs, aliases) ==
    LET r == new_witness_variable(run.cs, vals[i])
    IN  Run(r.cs, Append(run.variables, r.variable), "running")

\* variant: a public input gets an instance variable
AllocateWitnessPublicAsInstance(run, i, vals, pubs, aliases) ==
    IF i \in DOMAIN aliases
    THEN IF aliases[i].kind = "Var"
         THEN Run(run.cs, Append(run.variables, aliases[i].variable), "running")
         ELSE Run(run.cs, run.variables, "Err")
    ELSE LET r == IF i \in pubs
                  THEN new_input_variable(run.cs, vals[i])
                  ELSE new_witness_variable(run.cs, vals[i])
         IN  Run(r.cs, Append(run.variables, r.variable), "running")

\* one iteration of `for (i, val) in self.values.iter()`
AllocateWitness(run, i, vals, pubs, aliases) ==
    IF i \in DOMAIN aliases
    THEN IF aliases[i].kind = "Var"
         THEN Run(run.cs, Append(run.variables, aliases[i].variable), "running")
         ELSE Run(run.cs, run.variables, "Err")
    ELSE LET r == IF i \in pubs
                  THEN new_witness_variable(run.cs, vals[i])
                  ELSE new_witness_variable(run.cs, vals[i])
         IN  Run(r.cs, Append(run.variables, r.variable), "running")

\* variant: the auxiliary variable is seeded with the left value alone
MulTermValueLeft(t, vals) == vals[t[2]]

\* left_val * right_val
MulTermValue(t, vals) == FMul(vals[t[2]], vals[t[3]])

\* `for mul_term in gate.mul_terms`: one auxiliary witness per term
RECURSIVE ProcessMulTerms(_, _, _, _)
ProcessMulTerms(c, arith_gate, mul_terms, vals) ==
    IF mul_terms = << >> THEN [cs |-> c, arith_gate |-> arith_gate]
    ELSE LET r == FpVar_new_witness(c, MulTermValue(Head(mul_terms), vals))
         IN  ProcessMulTerms(r.cs,
                             LcAdd(arith_gate, Head(mul_terms)[1], r.var.variable),
                             Tail(mul_terms), vals)

\* `for add_term in gate.add_terms`
RECURSIVE ProcessAddTerms(_, _, _)
ProcessAddTerms(arith_gate, add_terms, vs) ==
    IF add_terms = << >> THEN arith_gate
    ELSE ProcessAddTerms(LcAdd(arith_gate, Head(add_terms)[1], vs[Head(add_terms)[2] + 1]),
                         Tail(add_terms), vs)

\* variant: a gate without terms and with a zero constant emits nothing
EmitGateSkippingEmpty(run, gate, vals) ==
    LET m  == ProcessMulTerms(run.cs, EmptyLc, gate.mul_terms, vals)
        lc == LcAdd(ProcessAddTerms(m.arith_gate, gate.add_terms, run.variables),
                    gate.constant_term, One)
    IN  IF gate.mul_terms = << >> /\ gate.add_terms = << >> /\ gate.constant_term = FZero
        THEN run
        ELSE Run(enforce_constraint(m.cs, LcAdd(EmptyLc, FOne, One), lc, EmptyLc),
                 run.variables, "running")

\* variant: each gate's constraint replaces the ones before it
EmitGateOverwriting(run, gate, vals) ==
    LET m  == ProcessMulTerms(run.cs, EmptyLc, gate.mul_terms, vals)
        lc == LcAdd(ProcessAddTerms(m.arith_gate, gate.add_terms, run.variables),
                    gate.constant_term, One)
    IN  Run(enforce_constraint_replacing(m.cs, LcAdd(EmptyLc, FOne, One), lc, EmptyLc),
            run.variables, "running")

\* one iteration of `for gate in self.gates`
EmitGate(run, gate, vals) ==
    LET m  == ProcessMulTerms(run.cs, EmptyLc, gate.mul_terms, vals)
        lc == LcAdd(ProcessAddTerms(m.arith_gate, gate.add_terms, run.variables),
                    gate.constant_term, One)
    IN  Run(enforce_constraint(m.cs, LcAdd(EmptyLc, FOne, One), lc, EmptyLc),
            run.variables, "running")

RECURSIVE AllocationPass(_, _, _, _)
AllocationPass(run, vals, pubs, aliases) ==
    IF run.status # "running" \/ Len(run.variables) = Cardinality(DOMAIN vals) THEN run
    ELSE AllocationPass(AllocateWitness(run, Len(run.variables), vals, pubs, aliases),
                        vals, pubs, aliases)

RECURSIVE EmissionPass(_, _, _)
EmissionPass(run, gs, vals) ==
    IF gs = << >> THEN run
    ELSE EmissionPass(EmitGate(run, Head(gs), vals), Tail(gs), vals)

\* the whole function: its result and the constraint system it leaves
generate_constraints(gs, pubs, vals, aliases, c) ==
    LET a == AllocationPass(Run(c, << >>, "running"), vals, pubs, aliases)
    IN  IF a.status = "Err" THEN a
        ELSE [EmissionPass(a, gs, vals) EXCEPT !.status = "Ok"]

(***************************************************************************)
(* Synthesis, one loop iteration at a time.                                *)
(***************************************************************************)
NumVars == Cardinality(DOMAIN values)

\* where the function stands after a step that left the run in status st
\* with nv witnesses and ng gates handled
Position(st, nv, ng) ==
    IF st = "Err" THEN "Err"
    ELSE IF nv < NumVars THEN "allocating"
         ELSE IF ng < Len(gates) THEN "emitting" ELSE "Ok"

\* constraint systems that already hold e witness variables of an outer circuit
ExternalSystems(e) ==
    { [EmptyConstraintSystem EXCEPT !.num_witness_variables = e,
                                    !.witness_assignment = a] :
        a \in SeqsOfLen(Field, e) }

\* the FpVar handles a caller can pass: variables of c, or a constant
Handles(c) ==
    { FpVarVar(WitnessVar(k - 1), c.witness_assignment[k]) :
        k \in 1..Len(c.witness_assignment) }
      \cup { FpVarConstant(FOne) }

\* alias maps with k entries, keyed by witnesses below n
AliasMaps(n, k, c) ==
    UNION { [D -> Handles(c)] : D \in { D \in SUBSET (0..(n - 1)) : Cardinality(D) = k } }

\* total witness maps: every witness solved
SolvedWitnessMaps(n) == [0..(n - 1) -> CompilerField]

\* The bridge as AcirCircuitSonobe::from builds it, then the constraint system
\* handed to generate_constraints and the caller's aliases (the field is pub):
\* a stand-alone circuit synthesized into a new constraint system, or a circuit
\* embedded in an outer one, k of its witnesses aliased (k alias entries count
\* as k terms of the bound MaxTerms; the key N is outside the circuit's range).
Init ==
    /\ \E N \in 1..MaxVars, k \in 0..MaxTerms :
         /\ \E pubs \in { {}, {0} } :
              ChooseCircuit(<< >>, N, pubs, MaxGates, MaxTerms - k, {})
         /\ witness_map \in SolvedWitnessMaps(N)
         /\ \/ /\ k = 0
               /\ cs0 = EmptyConstraintSystem
               /\ already_assigned_witnesses = EmptyMap
            \/ /\ k > 0
               /\ \E e \in 1..MaxExternal : cs0 \in ExternalSystems(e)
               /\ already_assigned_witnesses \in AliasMaps(N + 1, k, cs0)
    /\ LET b == AcirCircuitSonobeFrom(circuit, witness_map)
       IN  /\ gates = b.gates
           /\ values = b.values
           /\ public_inputs = b.public_inputs
    /\ num_opcodes = NotCounted
    /\ cs = cs0
    /\ variables = << >>
    /\ gates_taken = 0
    /\ pc = "allocating"

\* one iteration of the allocation loop, for the witness Len(variables)
AllocationStep ==
    /\ pc = "allocating"
    /\ LET r == AllocateWitness(Run(cs, variables, "running"), Len(variables),
                                values, public_inputs, already_assigned_witnesses)
       IN  /\ cs' = r.cs
           /\ variables' = r.variables
           /\ pc' = Position(r.status, Len(r.variables), 0)
    /\ UNCHANGED << circuit, witness_map, gates, public_inputs, values,
                    already_assigned_witnesses, num_opcodes, cs0, gates_taken >>

\* the aliased index resolves to an allocated variable
ReuseAlias ==
    /\ Len(variables) \in DOMAIN already_assigned_witnesses
    /\ already_assigned_witnesses[Len(variables)].kind = "Var"
    /\ AllocationStep

\* the aliased handle is a constant: return Err(SynthesisError::Unsatisfiable)
RejectAlias ==
    /\ Len(variables) \in DOMAIN already_assigned_witnesses
    /\ already_assigned_witnesses[Len(variables)].kind # "Var"
    /\ AllocationStep

\* no alias: cs.new_witness_variable(|| Ok(*val))
NewWitness ==
    /\ Len(variables) \notin DOMAIN already_assigned_witnesses
    /\ AllocationStep

\* the body of `for gate in self.gates`, for the next gate
Gate ==
    /\ pc = "emitting"
    /\ LET r == EmitGate(Run(cs, variables, "running"), gates[gates_taken + 1], values)
       IN  /\ cs' = r.cs
           /\ pc' = Position(r.status, Len(variables), gates_taken + 1)
    /\ gates_taken' = gates_taken + 1
    /\ UNCHANGED << circuit, witness_map, gates, public_inputs, values,
                    already_assigned_witnesses, num_opcodes, cs0, variables >>

Next == ReuseAlias \/ RejectAlias \/ NewWitness \/ Gate

Spec == Init /\ [][Next]_vars

NextBridge == AcirCircuit_from \/ AcirCircuitSonobe_from \/ ComputeNumOpcodes

SpecBridge == InitBridge /\ [][NextBridge]_vars

(***************************************************************************)
(* Properties of the construction (SpecBridge).                            *)
(***************************************************************************)
Built == pc \in {"AcirCircuit", "AcirCircuitSonobe"}

HasUnsupportedOpcode ==
    \E i \in 1..Len(circuit.opcodes) :
        circuit.opcodes[i].kind \notin {"AssertZero", "Directive"}

\* C1 (rejection law): building the bridge from a circuit that contains an
\* opcode that is neither AssertZero nor Directive never completes
\* successfully: no bridge is built with that opcode dropped.
C1_UnsupportedOpcodeRejected == HasUnsupportedOpcode => ~Built

\* the contribution the opcode-cost law gives an opcode
OpcodeCost(op) ==
    IF op.kind = "AssertZero" THEN num_mul_terms(op.expr) + 1 ELSE 0

RECURSIVE SumOfCosts(_)
SumOfCosts(opcodes) ==
    IF opcodes = << >> THEN 0
    ELSE OpcodeCost(Head(opcodes)) + SumOfCosts(Tail(opcodes))

\* C2 (opcode-cost law): for a circuit of AssertZero and Directive opcodes
\* only, compute_num_opcodes returns the sum of the opcodes' contributions,
\* k + 1 for an AssertZero with k multiplication terms and 0 for a Directive.
C2_OpcodeCostLaw ==
    (pc = "counted" /\ ~HasUnsupportedOpcode)
        => (~num_opcodes.panicked /\ num_opcodes.value = SumOfCosts(circuit.opcodes))

\* C3 (totality of WitnessBinder): the value table has exactly the keys
\* 0..N-1; entry i is the solved value when the witness map has i and the
\* additive identity otherwise; and the construction is always possible.
C3_WitnessBinderTotal ==
    /\ pc = "circuit" => ENABLED AcirCircuit_from
    /\ Built =>
        /\ DOMAIN values = 0..(num_vars(circuit) - 1)
        /\ Cardinality(DOMAIN values) = num_vars(circuit)
        /\ \A i \in DOMAIN values :
              values[i] = IF i \in DOMAIN witness_map THEN witness_map[i].fe ELSE 0

\* two witnesses, only Witness(1) solved (to a nonzero value), and a key
\* beyond the circuit's witnesses in the map
C3_Witness ==
    /\ Built
    /\ num_vars(circuit) = 2
    /\ DOMAIN witness_map = {1, 2}
    /\ witness_map[1].fe # 0
    /\ values[0] = 0
    /\ values[1] = witness_map[1].fe

AssertZeroPositions == { i \in 1..Len(circuit.opcodes) : circuit.opcodes[i].kind = "AssertZero" }

\* the position of the n-th AssertZero opcode
NthAssertZero(n) ==
    CHOOSE p \in AssertZeroPositions :
        Cardinality({ q \in AssertZeroPositions : q < p }) = n - 1

\* C9 (order and shape preservation): for opcode lists of AssertZero and
\* Directive opcodes there is one gate per AssertZero and none per Directive,
\* in the order of the AssertZero opcodes; the n-th gate has the terms of the
\* n-th AssertZero expression, in order, with the same witnesses and the
\* converted coefficients and constant.
C9_GatesPreserveOrderAndShape ==
    (Built /\ ~HasUnsupportedOpcode) =>
        /\ Len(gates) = Cardinality(AssertZeroPositions)
        /\ \A n \in 1..Len(gates) :
              LET e == circuit.opcodes[NthAssertZero(n)].expr
                  g == gates[n]
              IN  /\ Len(g.mul_terms) = Len(e.mul_terms)
                  /\ \A j \in 1..Len(e.mul_terms) :
                        g.mul_terms[j] = << e.mul_terms[j][1].fe, e.mul_terms[j][2],
                                            e.mul_terms[j][3] >>
                  /\ Len(g.add_terms) = Len(e.linear_combinations)
                  /\ \A j \in 1..Len(e.linear_combinations) :
                        g.add_terms[j] = << e.linear_combinations[j][1].fe,
                                            e.linear_combinations[j][2] >>
                  /\ g.constant_term = e.q_c.fe

\* AssertZero, Directive, AssertZero: two different gates, the first with a
\* multiplication of two different witnesses
C9_Witness ==
    /\ Built
    /\ Len(circuit.opcodes) = 3
    /\ circuit.opcodes[1].kind = "AssertZero"
    /\ circuit.opcodes[2].kind = "Directive"
    /\ circuit.opcodes[3].kind = "AssertZero"
    /\ Len(gates) = 2
    /\ Len(gates[1].mul_terms) = 1
    /\ gates[1].mul_terms[1][2] # gates[1].mul_terms[1][3]
    /\ Len(gates[2].add_terms) = 1

(***************************************************************************)
(* Properties of the synthesis (Spec).                                     *)
(***************************************************************************)
RECURSIVE SumMulTerms(_, _)
SumMulTerms(mul_terms, vals) ==
    IF mul_terms = << >> THEN 0
    ELSE FAdd(FMul(Head(mul_terms)[1], FMul(vals[Head(mul_terms)[2]], vals[Head(mul_terms)[3]])),
              SumMulTerms(Tail(mul_terms), vals))

RECURSIVE SumAddTerms(_, _)
SumAddTerms(add_terms, vals) ==
    IF add_terms = << >> THEN 0
    ELSE FAdd(FMul(Head(add_terms)[1], vals[Head(add_terms)[2]]),
              SumAddTerms(Tail(add_terms), vals))

\* sum coeff.left.right + sum coeff.v + constant = 0 on the bound values
GateHolds(g, vals) ==
    FAdd(FAdd(SumMulTerms(g.mul_terms, vals), SumAddTerms(g.add_terms, vals)),
         g.constant_term) = 0

AllGatesHold == \A k \in 1..Len(gates) : GateHolds(gates[k], values)

\* the aliased witnesses of the circuit
AliasedInRange == DOMAIN already_assigned_witnesses \cap DOMAIN values

\* the aliased witnesses whose handle is a constant
ConstantAliases == { i \in AliasedInRange : already_assigned_witnesses[i].kind = "Constant" }

AliasesCarryBoundValues ==
    \A i \in AliasedInRange : already_assigned_witnesses[i].value = values[i]

\* C4 as stated (satisfiability law): when every aliased handle carries the
\* same value as values[index], generate_constraints succeeds, and the
\* constraint system then reports satisfied iff every gate's bound values
\* satisfy the gate's equation.
C4_SatisfiabilityLawAsStated ==
    AliasesCarryBoundValues =>
        /\ pc # "Err"
        /\ pc = "allocating" \/ pc = "emitting" => ENABLED Next
        /\ pc = "Ok" => (is_satisfied(cs) <=> AllGatesHold)

\* C4 amended: the same, when every aliased handle is an allocated variable
\* carrying the same value as values[index].
C4_SatisfiabilityLaw ==
    (ConstantAliases = {} /\ AliasesCarryBoundValues) =>
        /\ pc # "Err"
        /\ pc = "allocating" \/ pc = "emitting" => ENABLED Next
        /\ pc = "Ok" => (is_satisfied(cs) <=> AllGatesHold)

\* the gate a - b = 0 with a = 6, b = 7: synthesis succeeded, the constraint
\* is emitted, the system is unsatisfied
C4_Witness ==
    /\ pc = "Ok"
    /\ already_assigned_witnesses = EmptyMap
    /\ gates = << AcirArithGate(<< >>, << << FOne, 0 >>, << FNeg(FOne), 1 >> >>, FZero) >>
    /\ values[0] = FromInt(6)
    /\ values[1] = FromInt(7)
    /\ Len(cs.constraints) = 1
    /\ ~is_satisfied(cs)

\* the constraint emitted for the k-th gate
ConstraintOfGate(k) == cs.constraints[Len(cs0.constraints) + k]

FreshBelow(i) == { j \in 0..(i - 1) : j \notin DOMAIN already_assigned_witnesses }

RECURSIVE TotalMulTerms(_)
TotalMulTerms(gs) ==
    IF gs = << >> THEN 0 ELSE Len(Head(gs).mul_terms) + TotalMulTerms(Tail(gs))

\* the auxiliary variable of the j-th multiplication term of the k-th gate:
\* auxiliaries follow the fresh witnesses of the allocation pass, in term order
AuxiliaryOf(k, j) ==
    WitnessVar(cs0.num_witness_variables + Cardinality(FreshBelow(NumVars))
                 + TotalMulTerms(SubSeq(gates, 1, k - 1)) + j - 1)

\* the (coefficient, variable) terms the k-th gate stands for
TermsOfGate(k) ==
    [j \in 1..Len(gates[k].mul_terms) |-> << gates[k].mul_terms[j][1], AuxiliaryOf(k, j) >>]
        \o [j \in 1..Len(gates[k].add_terms) |->
               << gates[k].add_terms[j][1], variables[gates[k].add_terms[j][2] + 1] >>]
        \o << << gates[k].constant_term, One >> >>

\* the coefficient a list of terms gives a variable
RECURSIVE CoefficientIn(_, _)
CoefficientIn(terms, var) ==
    IF terms = << >> THEN 0
    ELSE FAdd(IF Head(terms)[2] = var THEN Head(terms)[1] ELSE 0,
              CoefficientIn(Tail(terms), var))

\* lc is the accumulator of the given terms
IsAccumulatorOf(lc, terms) ==
    /\ DOMAIN lc = { terms[j][2] : j \in 1..Len(terms) }
    /\ \A v \in DOMAIN lc : lc[v] = CoefficientIn(terms, v)

\* C5 (one constraint per gate): a successful run adds exactly one constraint
\* ONE . accumulator = ZERO per gate, in gate order, whatever the gate's
\* terms; a bridge without gates adds none and succeeds.
C5_OneConstraintPerGate ==
    /\ Len(cs.constraints) = Len(cs0.constraints) + gates_taken
    /\ pc = "Ok" =>
        /\ gates_taken = Len(gates)
        /\ \A k \in 1..Len(gates) :
              /\ IsAccumulatorOf(ConstraintOfGate(k).a, << << FOne, One >> >>)
              /\ ConstraintOfGate(k).c = << >>
              /\ IsAccumulatorOf(ConstraintOfGate(k).b, TermsOfGate(k))
    /\ (pc = "emitting" /\ gates = << >>) => FALSE
    /\ (gates = << >> /\ ConstantAliases = {} /\ pc # "allocating") => pc = "Ok"

\* a gate without terms and with a zero constant, next to a gate with terms
C5_Witness ==
    /\ pc = "Ok"
    /\ Len(gates) = 2
    /\ gates[1] = AcirArithGate(<< >>, << >>, FZero)
    /\ Len(gates[2].mul_terms) = 1
    /\ Len(gates[2].add_terms) = 1
    /\ Len(cs.constraints) = 2

Min(S) == CHOOSE x \in S : \A y \in S : x <= y

\* C6 (alias-inconsistency abort): with a constant handle aliased to a witness
\* of the circuit, the run ends in an error, in the allocation pass: no
\* constraint added, no auxiliary variable allocated, only the fresh
\* variables of the non-aliased witnesses below the offending one.
C6_AliasInconsistencyAborts ==
    /\ ConstantAliases # {} => pc \in {"allocating", "Err"}
    /\ pc = "allocating" => ENABLED Next
    /\ pc = "Err" =>
        /\ ConstantAliases # {}
        /\ Len(variables) = Min(ConstantAliases)
        /\ gates_taken = 0
        /\ cs.constraints = cs0.constraints
        /\ cs.num_witness_variables
             = cs0.num_witness_variables + Cardinality(FreshBelow(Min(ConstantAliases)))
        /\ cs.num_instance_variables = cs0.num_instance_variables

\* the second witness is aliased to a constant; the first got its fresh
\* variable; the gate's multiplication got none
C6_Witness ==
    /\ pc = "Err"
    /\ ConstantAliases = {1}
    /\ variables = << WitnessVar(cs0.num_witness_variables) >>
    /\ cs.num_witness_variables = cs0.num_witness_variables + 1
    /\ Len(gates) = 1
    /\ Len(gates[1].mul_terms) = 1

GateOrders(n) == { f \in [1..n -> 1..n] : \A i, j \in 1..n : f[i] = f[j] => i = j }

\* C7 (order invariance): synthesizing any permutation of the gates, from the
\* same values, public set, aliases and constraint system, gives the same
\* outcome, the same constraint count and the same satisfied verdict.
C7_OrderInvariance ==
    pc \in {"Ok", "Err"} =>
        \A f \in GateOrders(Len(gates)) :
            LET r == generate_constraints([i \in 1..Len(gates) |-> gates[f[i]]],
                                          public_inputs, values,
                                          already_assigned_witnesses, cs0)
            IN  /\ r.status = pc
                /\ Len(r.cs.constraints) = Len(cs.constraints)
                /\ is_satisfied(r.cs) <=> is_satisfied(cs)

\* two different gates, one satisfied by the values and one not
C7_Witness ==
    /\ pc = "Ok"
    /\ Len(gates) = 2
    /\ Len(gates[1].mul_terms) = 1
    /\ Len(gates[2].mul_terms) = 1
    /\ GateHolds(gates[1], values)
    /\ ~GateHolds(gates[2], values)
    /\ ~is_satisfied(cs)

\* C8 (allocation accounting): a successful run allocates one witness
\* variable per non-aliased witness of the circuit, in ascending order and
\* seeded with its value, and one per multiplication term, and nothing else;
\* an aliased witness uses the supplied handle; no instance variable is
\* allocated, public input or not.
C8_AllocationAccounting ==
    /\ cs.num_instance_variables = cs0.num_instance_variables
    /\ pc = "Ok" =>
        /\ cs.num_witness_variables
             = cs0.num_witness_variables + (NumVars - Cardinality(AliasedInRange))
                 + TotalMulTerms(gates)
        /\ Len(cs.witness_assignment) = cs.num_witness_variables
        /\ SubSeq(cs.witness_assignment, 1, Len(cs0.witness_assignment))
             = cs0.witness_assignment
        /\ Len(variables) = NumVars
        /\ \A i \in DOMAIN values :
              IF i \in DOMAIN already_assigned_witnesses
              THEN variables[i + 1] = already_assigned_witnesses[i].variable
              ELSE LET n == cs0.num_witness_variables + Cardinality(FreshBelow(i))
                   IN  /\ variables[i + 1] = WitnessVar(n)
                       /\ cs.witness_assignment[n + 1] = values[i]
        /\ \A k \in 1..Len(gates) :
              /\ \A j \in 1..Len(gates[k].add_terms) :
                    variables[gates[k].add_terms[j][2] + 1] \in DOMAIN ConstraintOfGate(k).b
              /\ \A j \in 1..Len(gates[k].mul_terms) :
                    /\ AuxiliaryOf(k, j) \in DOMAIN ConstraintOfGate(k).b
                    /\ VarValue(cs.witness_assignment, AuxiliaryOf(k, j))
                         = FMul(values[gates[k].mul_terms[j][2]],
                                values[gates[k].mul_terms[j][3]])

\* a public witness allocated fresh, after the outer circuit's variable; an
\* aliased witness used in a linear term
C8_Witness ==
    /\ pc = "Ok"
    /\ NumVars = 2
    /\ 0 \in public_inputs
    /\ DOMAIN already_assigned_witnesses = {1}
    /\ Len(gates) = 1
    /\ gates[1].add_terms = << << FOne, 1 >> >>
    /\ variables = << WitnessVar(1), WitnessVar(0) >>
    /\ WitnessVar(0) \in DOMAIN cs.constraints[1].b

\* C10 (soundness of the multiplication encoding): every assignment that
\* satisfies the emitted constraints gives each multiplication term's
\* auxiliary variable the product of its two witness variables.
C10_MultiplicationSound ==
    pc = "Ok" =>
        \A a \in [1..cs.num_witness_variables -> Field] :
            SatisfiedBy(cs, a) =>
                \A k \in 1..Len(gates) :
                    \A j \in 1..Len(gates[k].mul_terms) :
                        VarValue(a, AuxiliaryOf(k, j))
                          = FMul(VarValue(a, variables[gates[k].mul_terms[j][2] + 1]),
                                 VarValue(a, variables[gates[k].mul_terms[j][3] + 1]))

====
